---------------------------- MODULE Spec2Model ----------------------------
(***************************************************************************)
(* A model of the demand forecasting engine of src/ml_forecasting.py:      *)
(* DemandForecaster.create_features, train_model, forecast_demand,         *)
(* detect_anomalies, optimize_inventory and generate_recommendations, and  *)
(* of run_forecasting_pipeline, which calls them for each store in turn.   *)
(*                                                                         *)
(* Numbers.  The program computes in IEEE doubles.  The model computes the *)
(* same expressions exactly: a float is NaN, +infinity, or q + sqrt(r) for *)
(* rationals q and r >= 0 (r = 0 for a plain rational).  This is enough    *)
(* for every expression of the program: sums, means and products are       *)
(* rational, and a standard deviation, a z-score and an order quantity are *)
(* each the square root of a rational.  A rational is a pair <<n, d>> in   *)
(* lowest terms with d > 0.                                                *)
(*                                                                         *)
(* Dates.  A date is the number of days since 2024-01-01 (a Monday).       *)
(***************************************************************************)
EXTENDS Integers, Sequences, FiniteSets

VARIABLES
    pc,                \* position of the caller: the call made last
    df,                \* the sales history handed to the forecaster
    daily_sales,       \* the feature rows returned by create_features
    scalers,           \* DemandForecaster.scalers: the set of its items
    feature_importance,\* DemandForecaster.feature_importance: its items
    split,             \* train_model's partition of the usable rows
    args,              \* the arguments of the call made last
    current_data,      \* forecast_demand's working window
    forecasts,         \* forecast_demand's list of forecast points
    anomalies,         \* detect_anomalies' result
    inventory_params,  \* optimize_inventory's result
    recommendations,   \* generate_recommendations' result
    model,             \* the models train_model has returned to the caller
    predict_calls,     \* the calls of model.predict: input and score
    returned,          \* the calls that have returned a value to the caller
    raised,            \* the exception the last call raised, or "none"
    stores,            \* run_forecasting_pipeline: what the database holds
                       \* for each store of the list
    store,             \* the position in the list of the store of the loop
    step,              \* the line of the loop body the pipeline is at
    log,               \* what the loop did with each store it is through with
    sink,              \* the calls of save_forecasts_to_db
    connection,        \* ETLPipeline.connection
    cursor,            \* ETLPipeline.cursor
    tables,            \* the committed rows of each table of the database
    uncommitted,       \* the rows inserted by the open transaction
    etl_step,          \* the line of ETLPipeline.run the pipeline is at
    etl_log,           \* what each step of ETLPipeline.run ended in
    result             \* what ETLPipeline.run returned, or "none"

\* the variables of ETLPipeline
etl == <<connection, cursor, tables, uncommitted, etl_step, etl_log, result>>

\* the variables of the batch drivers: run_forecasting_pipeline and
\* ETLPipeline.run
pipeline == <<stores, store, step, log, sink, etl>>

\* the variables of the forecaster, its caller and run_forecasting_pipeline
forecasting ==
    <<pc, df, daily_sales, scalers, feature_importance, split, args,
      current_data, forecasts, anomalies, inventory_params, recommendations,
      model, predict_calls, returned, raised, stores, store, step, log, sink>>

vars == <<pc, df, daily_sales, scalers, feature_importance, split, args, current_data, forecasts,
          anomalies, inventory_params, recommendations, model, predict_calls, returned, raised,
          stores, store, step, log, sink,
          connection, cursor, tables, uncommitted, etl_step, etl_log, result>>

----------------------------------------------------------------------------
(* Exact arithmetic                                                        *)

Abs(x) == IF x < 0 THEN -x ELSE x

RECURSIVE Gcd(_, _)
Gcd(a, b) == IF b = 0 THEN Abs(a) ELSE Gcd(Abs(b), Abs(a) % Abs(b))

\* The rational n/d (d # 0) in lowest terms with a positive denominator.
Rat(n, d) ==
    LET g == Gcd(n, d)
        s == IF d < 0 THEN -1 ELSE 1
    IN  <<s * (n \div g), s * (d \div g)>>

RInt(n) == <<n, 1>>

RAdd(x, y) ==
    LET g == Gcd(x[2], y[2])
    IN  Rat(x[1] * (y[2] \div g) + y[1] * (x[2] \div g), (x[2] \div g) * y[2])

RNeg(x) == <<-x[1], x[2]>>

RSub(x, y) == RAdd(x, RNeg(y))

\* Cross-cancelled before multiplying, so that the products stay small.
RMul(x, y) ==
    LET g1 == Gcd(x[1], y[2])
        g2 == Gcd(y[1], x[2])
    IN  IF x[1] = 0 \/ y[1] = 0 THEN <<0, 1>>
        ELSE Rat((x[1] \div g1) * (y[1] \div g2), (x[2] \div g2) * (y[2] \div g1))

\* y # 0
RDiv(x, y) == RMul(x, Rat(y[2], y[1]))

\* x > y, by continued fractions: no product of numerators is formed.
RECURSIVE FracGT(_, _, _, _)
FracGT(a, b, c, d) ==
    \* a/b > c/d for a, c >= 0 and b, d > 0
    LET qa == a \div b
        qc == c \div d
        ra == a % b
        rc == c % d
    IN  IF qa # qc THEN qa > qc
        ELSE IF ra = 0 THEN FALSE
        ELSE IF rc = 0 THEN TRUE
        ELSE FracGT(d, rc, b, ra)

RGT(x, y) ==
    IF x[1] >= 0 /\ y[1] >= 0 THEN FracGT(x[1], x[2], y[1], y[2])
    ELSE IF x[1] >= 0 THEN TRUE
    ELSE IF y[1] >= 0 THEN FALSE
    ELSE FracGT(-y[1], y[2], -x[1], x[2])

RGE(x, y) == x = y \/ RGT(x, y)

----------------------------------------------------------------------------
(* Floats: NaN, +infinity, or q + sqrt(r)                                  *)

NaN == [k |-> "nan", q |-> <<0, 1>>, r |-> <<0, 1>>]

Inf == [k |-> "inf", q |-> <<0, 1>>, r |-> <<0, 1>>]

Num(x) == [k |-> "num", q |-> x, r |-> <<0, 1>>]

\* sqrt(x) for a rational x >= 0
Root(x) == [k |-> "num", q |-> <<0, 1>>, r |-> x]

IsNaN(f) == f.k = "nan"

IsNum(f) == f.k = "num"

\* a plain rational
IsRat(f) == f.k = "num" /\ f.r = <<0, 1>>

\* f * c for a rational c >= 0 and f a rational or a root
FScale(f, c) ==
    IF f.k # "num" THEN f
    ELSE [k |-> "num", q |-> RMul(f.q, c), r |-> RMul(f.r, RMul(c, c))]

\* f + g, where at most one of the two has a root part
FAdd(f, g) ==
    IF IsNaN(f) \/ IsNaN(g) THEN NaN
    ELSE IF f.k = "inf" \/ g.k = "inf" THEN Inf
    ELSE [k |-> "num", q |-> RAdd(f.q, g.q),
          r |-> IF f.r = <<0, 1>> THEN g.r ELSE f.r]

\* f >= 0 as the program's comparison evaluates it (False on NaN)
FNonNeg(f) ==
    \/ f.k = "inf"
    \/ f.k = "num" /\ f.q[1] >= 0

\* f > c for a rational c, as the program's comparison evaluates it: False on
\* NaN; for q + sqrt(r) only the two shapes the program compares occur.
FGT(f, c) ==
    CASE f.k = "nan" -> FALSE
      [] f.k = "inf" -> TRUE
      [] f.r = <<0, 1>> -> RGT(f.q, c)
      [] OTHER -> \* sqrt(r) > c
                  c[1] < 0 \/ RGT(f.r, RMul(c, c))

\* f >= c for a rational c and f = q + sqrt(r) (False on NaN)
FGE(f, c) ==
    CASE f.k = "nan" -> FALSE
      [] f.k = "inf" -> TRUE
      [] OTHER -> LET e == RSub(c, f.q)
                  IN  e[1] <= 0 \/ RGE(f.r, RMul(e, e))

\* f * sqrt(c) for a rational c >= 0 and f a root (np.sqrt(c) is a root)
FMulSqrt(f, c) == IF f.k # "num" THEN f ELSE Root(RMul(f.r, c))

\* np.sqrt(x / y) for rationals x and y >= 0: x / 0 is infinite for x > 0
\* and undefined for x = 0; the root of a negative number is undefined.
FSqrtDiv(x, y) ==
    IF y[1] = 0 THEN (IF x[1] > 0 THEN Inf ELSE NaN)
    ELSE IF RDiv(x, y)[1] < 0 THEN NaN
    ELSE Root(RDiv(x, y))

\* int(f) for f >= 0: the integer part; int() raises on NaN and infinity,
\* which the callers test first.
IntOf(f) ==
    LET lo == f.q[1] \div f.q[2]
        hi == lo + (f.r[1] \div f.r[2]) + 1
    IN  CHOOSE m \in lo..hi : FGE(f, <<m, 1>>) /\ ~FGE(f, <<m + 1, 1>>)

----------------------------------------------------------------------------
(* Sums over a column                                                      *)

RECURSIVE SumRange(_, _, _)
\* s[lo] + ... + s[hi] of a sequence of integers
SumRange(s, lo, hi) ==
    IF lo > hi THEN 0
    ELSE IF lo = hi THEN s[lo]
    ELSE LET mid == (lo + hi) \div 2
         IN  SumRange(s, lo, mid) + SumRange(s, mid + 1, hi)

RECURSIVE SumSqRange(_, _, _)
SumSqRange(s, lo, hi) ==
    IF lo > hi THEN 0
    ELSE IF lo = hi THEN s[lo] * s[lo]
    ELSE LET mid == (lo + hi) \div 2
         IN  SumSqRange(s, lo, mid) + SumSqRange(s, mid + 1, hi)

\* mean of s[lo..hi]; NaN for an empty range
MeanRange(s, lo, hi) ==
    IF lo > hi THEN NaN ELSE Num(Rat(SumRange(s, lo, hi), hi - lo + 1))

\* The sample variance (ddof = 1) of s[lo..hi], n >= 2 values:
\* (sum x^2 - (sum x)^2 / n) / (n - 1).
VarRange(s, lo, hi) ==
    LET n  == hi - lo + 1
        S  == SumRange(s, lo, hi)
        SS == SumSqRange(s, lo, hi)
    IN  RDiv(RSub(RInt(SS), Rat(S * S, n)), RInt(n - 1))

\* pandas' std of s[lo..hi] (ddof = 1): NaN for fewer than two values
StdRange(s, lo, hi) ==
    IF hi - lo + 1 < 2 THEN NaN ELSE Root(VarRange(s, lo, hi))

----------------------------------------------------------------------------
(* Dates                                                                   *)

\* Timestamp.dayofweek: Monday is 0; day 0 is a Monday
DayOfWeek(d) == d % 7

\* Timestamp.month within 2024, from the day of the year
MonthOf(d) ==
    LET ends == <<31, 60, 91, 121, 152, 182, 213, 244, 274, 305, 335, 366>>
    IN  CHOOSE m \in 1..12 :
            /\ d % 366 < ends[m]
            /\ \A j \in 1..(m - 1) : d % 366 >= ends[j]

\* Timestamp.quarter
QuarterOf(d) == ((MonthOf(d) - 1) \div 3) + 1

----------------------------------------------------------------------------
(* Sales histories                                                         *)
(* A history is a sequence of sales records in saleDate order, as          *)
(* get_historical_sales returns it.  The date column is named "saleDate"   *)
(* in what the database returns and "date" in a frame that was already     *)
(* aggregated; a record carries one of the two.                            *)

SaleRow(col, d, q) ==
    IF col = "saleDate" THEN [saleDate |-> d, quantity |-> q]
    ELSE [date |-> d, quantity |-> q]

\* n distinct dates from day `first`, with `gap` days missing after the first
\* date; `base` units are sold each day but `spike` units on the pos-th date
\* (pos = 0: no such date); with dup = 1 the last date has a second record.
History(col, n, gap, dup, base, pos, spike) ==
    LET dateOf(k) == (k - 1) + (IF k > 1 THEN gap ELSE 0)
    IN  [k \in 1..(n + dup) |->
            IF k <= n
            THEN SaleRow(col, dateOf(k), IF k = pos THEN spike ELSE base)
            ELSE SaleRow(col, dateOf(n), base)]

HasColumn(rows, col) == rows = <<>> \/ col \in DOMAIN rows[1]

\* the integers of S in ascending order
SortedSeq(S) ==
    [i \in 1..Cardinality(S) |->
        CHOOSE x \in S : Cardinality({y \in S : y < x}) = i - 1]

\* the total quantity of the first k rows whose date (column col) is d
SumWhere(rows, col, d, k) ==
    LET q == [i \in 1..k |-> IF rows[i][col] = d THEN rows[i].quantity ELSE 0]
    IN  SumRange(q, 1, k)

\* df.groupby(col)['quantity'].sum().reset_index(): one row per distinct
\* date, in ascending date order, with the summed quantity.
GroupByDate(rows, col) ==
    LET dates == SortedSeq({rows[k][col] : k \in 1..Len(rows)})
    IN  [i \in 1..Len(dates) |->
            [date |-> dates[i],
             quantity |-> SumWhere(rows, col, dates[i], Len(rows))]]

Column(rows, name) == [i \in 1..Len(rows) |-> rows[i][name]]

----------------------------------------------------------------------------
(* create_features                                                         *)

LagWindow == 30

WeekWindow == 7

\* Series.shift(k): row i holds the value of row i - k, undefined before
Shift(q, k) == [i \in 1..Len(q) |-> IF i > k THEN Num(RInt(q[i - k])) ELSE NaN]

\* Series.rolling(window=w).mean(): undefined until w observations are seen
RollingMean(q, w) ==
    [i \in 1..Len(q) |-> IF i >= w THEN MeanRange(q, i - w + 1, i) ELSE NaN]

\* Series.rolling(window=w).std()
RollingStd(q, w) ==
    [i \in 1..Len(q) |-> IF i >= w THEN StdRange(q, i - w + 1, i) ELSE NaN]

\* fillna(method='bfill') on one column: an undefined value takes the next
\* defined value below it, and stays undefined when there is none.
Bfill(c) ==
    LET n == Len(c)
        B[j \in 0..n] ==
            \* the value of row n - j + 1 after the fill; B[0] is a sentinel
            IF j = 0 THEN NaN
            ELSE IF ~IsNaN(c[n - j + 1]) THEN c[n - j + 1] ELSE B[j - 1]
    IN  [i \in 1..n |-> B[n - i + 1]]

\* fillna(method='ffill') on one column
Ffill(c) ==
    LET n == Len(c)
        F[j \in 0..n] ==
            IF j = 0 THEN NaN
            ELSE IF ~IsNaN(c[j]) THEN c[j] ELSE F[j - 1]
    IN  [i \in 1..n |-> F[i]]

FillNa(c) == Ffill(Bfill(c))

FeatureCols ==
    <<"quantity_lag1", "quantity_lag7", "quantity_lag30",
      "quantity_rolling_mean_7", "quantity_rolling_std_7",
      "quantity_rolling_mean_30", "day_of_week", "month", "quarter">>

\* The frame create_features returns for the history `rows`.
CreateFeaturesOf(rows) ==
    LET ds   == GroupByDate(rows, "saleDate")
        q    == Column(ds, "quantity")
        lag1 == FillNa(Shift(q, 1))
        lag7 == FillNa(Shift(q, WeekWindow))
        lag30 == FillNa(Shift(q, LagWindow))
        m7   == FillNa(RollingMean(q, WeekWindow))
        s7   == FillNa(RollingStd(q, WeekWindow))
        m30  == FillNa(RollingMean(q, LagWindow))
    IN  [i \in 1..Len(ds) |->
            [date |-> ds[i].date,
             quantity |-> ds[i].quantity,
             quantity_lag1 |-> lag1[i],
             quantity_lag7 |-> lag7[i],
             quantity_lag30 |-> lag30[i],
             quantity_rolling_mean_7 |-> m7[i],
             quantity_rolling_std_7 |-> s7[i],
             quantity_rolling_mean_30 |-> m30[i],
             day_of_week |-> Num(RInt(DayOfWeek(ds[i].date))),
             month |-> Num(RInt(MonthOf(ds[i].date))),
             quarter |-> Num(RInt(QuarterOf(ds[i].date)))]]

----------------------------------------------------------------------------
(* The forecaster after construction, and its caller                       *)
(* The caller makes the calls of run_forecasting_pipeline in the           *)
(* pipeline's order, each at most once, and may leave any of them out.     *)

NoCall == [op |-> "none"]

\* the tables the ETL pipeline writes to
TableNames ==
    {"stores", "products", "suppliers", "inventory", "sales", "orders",
     "returns", "kpiMetrics"}

\* ETLPipeline.__init__: no connection, no cursor; the schema is empty and
\* run has not been called
NoEtl ==
    /\ connection = "None"
    /\ cursor = "None"
    /\ tables = [t \in TableNames |-> 0]
    /\ uncommitted = 0
    /\ etl_step = "init"
    /\ etl_log = <<>>
    /\ result = "none"

\* the methods are called directly, not by run_forecasting_pipeline, and
\* the ETL pipeline is not run
NoPipeline ==
    /\ stores = <<>>
    /\ store = 0
    /\ step = "none"
    /\ log = <<>>
    /\ sink = <<>>
    /\ NoEtl

\* the caller before its first call
Idle ==
    /\ pc = "init"
    /\ daily_sales = <<>>
    /\ split = <<>>
    /\ args = NoCall
    /\ current_data = <<>>
    /\ forecasts = <<>>
    /\ anomalies = <<>>
    /\ inventory_params = <<>>
    /\ recommendations = <<>>
    /\ predict_calls = <<>>
    /\ returned = {}
    /\ raised = "none"
    /\ NoPipeline

\* DemandForecaster.__init__: no scaler, no feature importance; the caller
\* holds no model yet.
Constructed ==
    /\ Idle
    /\ scalers = {}
    /\ feature_importance = {}
    /\ model = <<>>

CallOrder ==
    <<"init", "create_features", "train_model", "forecast_demand",
      "detect_anomalies", "optimize_inventory", "generate_recommendations">>

Stage(p) == CHOOSE i \in 1..Len(CallOrder) : CallOrder[i] = p

\* the caller has not yet reached the call named op, and no call is running
Before(op) == pc \in {CallOrder[i] : i \in 1..(Stage(op) - 1)}

\* create_features(df): df['saleDate'] raises KeyError on a frame without
\* that column.
CreateFeatures ==
    /\ Before("create_features")
    /\ df # <<>>
    /\ pc' = "create_features"
    /\ args' = [op |-> "create_features"]
    /\ IF HasColumn(df, "saleDate")
       THEN /\ daily_sales' = CreateFeaturesOf(df)
            /\ returned' = returned \cup {"create_features"}
            /\ raised' = "none"
       ELSE /\ daily_sales' = daily_sales
            /\ returned' = returned
            /\ raised' = "KeyError"
    /\ UNCHANGED <<df, scalers, feature_importance, split, current_data,
                   forecasts, anomalies, inventory_params, recommendations,
                   model, predict_calls>>

----------------------------------------------------------------------------
(* train_model                                                             *)

MinTrainRows == 100

\* X = df[feature_cols].fillna(0): an undefined feature becomes 0
FillZero(f) == IF IsNaN(f) THEN Num(<<0, 1>>) ELSE f

\* mask = ~(X.isna().any(axis=1) | y.isna()): the positions of the rows kept.
\* The quantity of a row is a sum over its date and is always defined.
UsableRows(rows) ==
    SelectSeq([i \in 1..Len(rows) |-> i],
              LAMBDA i : \A j \in 1..Len(FeatureCols) :
                             ~IsNaN(FillZero(rows[i][FeatureCols[j]])))

\* a split that rounds the training size up
TrainSizeRoundedUp(n) == (n * 8 + 9) \div 10

\* int(len(X) * 0.8): 0.8 as a double lies just above 4/5, so the product
\* never rounds below the exact value and int() yields floor(8n/10).
TrainSize(n) == (n * 8) \div 10

\* X[:train_size] and X[train_size:], as the dates of the rows
TrainPart(rows, keep) ==
    [i \in 1..TrainSize(Len(keep)) |-> rows[keep[i]].date]

TestPart(rows, keep) ==
    [i \in 1..(Len(keep) - TrainSize(Len(keep))) |->
        rows[keep[TrainSize(Len(keep)) + i]].date]

\* what identifies a fit: the training rows the scaler and the model saw,
\* by their number, their first date and their total quantity
FitOf(rows, keep) ==
    [rows |-> TrainSize(Len(keep)), first |-> rows[keep[1]].date,
     total |-> SumRange([i \in 1..TrainSize(Len(keep)) |-> rows[keep[i]].quantity],
                        1, TrainSize(Len(keep)))]

\* d[key] = value on a dict held as the set of its items
SetItem(d, key, value) ==
    {e \in d : e.key # key} \cup {[key |-> key, fit |-> value]}

HasKey(d, key) == \E e \in d : e.key = key

\* d[key], for a key of d
ScalerOf(d, key) == (CHOOSE e \in d : e.key = key).fit

\* a length check placed after the scaler has been fitted and stored
InsufficientDataAfterStore ==
    /\ raised' = "ValueError"
    /\ scalers' = SetItem(scalers, "demand",
                           FitOf(daily_sales, UsableRows(daily_sales)))
    /\ UNCHANGED <<feature_importance, split, model, returned>>

\* raise ValueError("Insufficient data for model training"): nothing has
\* been fitted or stored yet
InsufficientData ==
    /\ raised' = "ValueError"
    /\ UNCHANGED <<scalers, feature_importance, split, model, returned>>

\* train_model(df) on the feature frame the caller holds
TrainModel ==
    /\ Before("train_model")
    /\ daily_sales # <<>>
    /\ pc' = "train_model"
    /\ args' = [op |-> "train_model"]
    /\ LET keep == UsableRows(daily_sales)
       IN  IF Len(keep) < MinTrainRows
           THEN InsufficientData
           ELSE /\ raised' = "none"
                /\ split' = [X_train |-> TrainPart(daily_sales, keep),
                             X_test |-> TestPart(daily_sales, keep)]
                /\ scalers' = SetItem(scalers, "demand",
                                       FitOf(daily_sales, keep))
                /\ feature_importance' =
                       SetItem(feature_importance, "demand",
                               FitOf(daily_sales, keep))
                /\ model' = Append(model, FitOf(daily_sales, keep))
                /\ returned' = returned \cup {"train_model"}
    /\ UNCHANGED <<df, daily_sales, current_data, forecasts, anomalies,
                   inventory_params, recommendations, predict_calls>>

----------------------------------------------------------------------------
(* forecast_demand                                                         *)
(* The model argument is an opaque regressor: each call of model.predict   *)
(* returns some score, of any sign.  One loop iteration is one step.       *)

\* the scores model.predict may return
Scores == {-3, 1, 4}

\* df.tail(k): the last k rows
TailRows(rows, k) ==
    IF Len(rows) <= k THEN rows ELSE SubSeq(rows, Len(rows) - k + 1, Len(rows))

\* the date of the first row of the window instead of the latest
FirstDate(rows) == rows[1].date

\* current_data['date'].max()
MaxDate(rows) ==
    CHOOSE d \in {rows[i].date : i \in 1..Len(rows)} :
        \A i \in 1..Len(rows) : rows[i].date <= d

\* a lag read one row too late: iloc[-(k - 1)] in place of iloc[-k]
LagOneRowLate(q, k) ==
    IF Len(q) >= k THEN Num(RInt(q[Len(q) - k + 2]))
    ELSE Num(Rat(SumRange(q, 1, Len(q)), Len(q)))

\* current_data['quantity'].iloc[-k] if len(current_data) >= k
\* else current_data['quantity'].mean()
LagOrMean(q, k) ==
    IF Len(q) >= k THEN Num(RInt(q[Len(q) - k + 1]))
    ELSE MeanRange(q, 1, Len(q))

Max2(a, b) == IF a > b THEN a ELSE b

\* the feature vector of the next day, from the working window
NextFeatures(rows) ==
    LET q == Column(rows, "quantity")
        n == Len(q)
        d == MaxDate(rows) + 1
    IN  [quantity_lag1 |-> Num(RInt(q[n])),
         quantity_lag7 |-> LagOrMean(q, WeekWindow),
         quantity_lag30 |-> LagOrMean(q, LagWindow),
         quantity_rolling_mean_7 |-> MeanRange(q, Max2(1, n - WeekWindow + 1), n),
         quantity_rolling_std_7 |-> StdRange(q, Max2(1, n - WeekWindow + 1), n),
         quantity_rolling_mean_30 |-> MeanRange(q, Max2(1, n - LagWindow + 1), n),
         day_of_week |-> Num(RInt(DayOfWeek(d))),
         month |-> Num(RInt(MonthOf(d))),
         quarter |-> Num(RInt(QuarterOf(d)))]

\* a prediction passed on as scored
Unclamped(score) == score

\* max(0, predicted_quantity)
Clamp(score) == IF score > 0 THEN score ELSE 0

\* the forecast point of a date and a clamped prediction
ForecastPoint(d, p) ==
    [date |-> d,
     predicted_quantity |-> Num(RInt(p)),
     confidence_interval_lower |-> Num(RMul(RInt(p), Rat(8, 10))),
     confidence_interval_upper |-> Num(RMul(RInt(p), Rat(12, 10)))]

\* a model object that no train_model call of this forecaster returned
OtherModel == [rows |-> 0, first |-> 0, total |-> 0]

\* the models the caller can pass to forecast_demand
HeldModels ==
    IF model = <<>> THEN {OtherModel} ELSE {model[i] : i \in 1..Len(model)}

\* forecasts = []; current_data = df.tail(30).copy().  The window keeps the
\* date and the quantity of a row: the loop reads no other column of it.
ForecastBegin(m, days_ahead) ==
    /\ Before("forecast_demand")
    /\ m \in HeldModels
    /\ "create_features" \in returned
    /\ daily_sales # <<>>
    /\ pc' = "forecast_loop"
    /\ args' = [op |-> "forecast_demand", model |-> m,
                days_ahead |-> days_ahead]
    /\ raised' = "none"
    /\ forecasts' = <<>>
    /\ predict_calls' = <<>>
    /\ current_data' =
          LET t == TailRows(daily_sales, LagWindow)
          IN  [i \in 1..Len(t) |-> [date |-> t[i].date, quantity |-> t[i].quantity]]
    /\ UNCHANGED <<df, daily_sales, scalers, feature_importance, split,
                   anomalies, inventory_params, recommendations, model,
                   returned>>

\* one iteration of `for i in range(days_ahead)`; self.scalers['demand']
\* raises KeyError when no training has stored a scaler.
ForecastStep ==
    /\ pc = "forecast_loop"
    /\ Len(forecasts) < args.days_ahead
    /\ IF ~HasKey(scalers, "demand")
       THEN /\ pc' = "forecast_demand"
            /\ raised' = "KeyError"
            /\ UNCHANGED <<forecasts, current_data, predict_calls>>
       ELSE \E score \in Scores :
              LET next_date == MaxDate(current_data) + 1
                  predicted_quantity == Clamp(score)
              IN  /\ predict_calls' =
                        Append(predict_calls,
                               [X_new |-> NextFeatures(current_data),
                                scaler |-> ScalerOf(scalers, "demand"),
                                model |-> args.model,
                                score |-> score])
                  /\ forecasts' =
                        Append(forecasts,
                               ForecastPoint(next_date, predicted_quantity))
                  /\ current_data' =
                        Append(current_data,
                               [date |-> next_date,
                                quantity |-> predicted_quantity])
                  /\ UNCHANGED <<pc, raised>>
    /\ UNCHANGED <<df, daily_sales, scalers, feature_importance, split, args,
                   anomalies, inventory_params, recommendations, model,
                   returned>>

\* return forecasts
ForecastReturn ==
    /\ pc = "forecast_loop"
    /\ Len(forecasts) = args.days_ahead
    /\ pc' = "forecast_demand"
    /\ returned' = returned \cup {"forecast_demand"}
    /\ UNCHANGED <<df, daily_sales, scalers, feature_importance, split, args,
                   current_data, forecasts, anomalies, inventory_params,
                   recommendations, model, predict_calls, raised>>

----------------------------------------------------------------------------
(* detect_anomalies                                                        *)

\* np.abs((quantity - mean) / std) of one row: undefined while the rolling
\* statistics are; x / 0 is infinite for x # 0 and undefined for x = 0.
\* a score that takes every division by a zero std as an infinite deviation
ZScoreInfiniteAtZeroStd(quantity, mean, std) ==
    IF IsNaN(mean) \/ IsNaN(std) THEN NaN
    ELSE IF std.r[1] = 0 THEN Inf
    ELSE Root(RDiv(RMul(RSub(RInt(quantity), mean.q),
                        RSub(RInt(quantity), mean.q)), std.r))

ZScore(quantity, mean, std) ==
    IF IsNaN(mean) \/ IsNaN(std) THEN NaN
    ELSE LET dev == RSub(RInt(quantity), mean.q)
         IN  IF std.r[1] = 0
             THEN (IF dev[1] = 0 THEN NaN ELSE Inf)
             ELSE Root(RDiv(RMul(dev, dev), std.r))

\* a severity that is high for every returned day
SeverityAlwaysHigh(z) == "high"

\* a severity that is high only from 6 standard deviations on
SeverityFromSix(z) == IF FGT(z, <<6, 1>>) THEN "high" ELSE "medium"

\* 'high' if row['z_score'] > 3 else 'medium'
SeverityOf(z) == IF FGT(z, <<3, 1>>) THEN "high" ELSE "medium"

\* the list detect_anomalies returns for the frame `rows` (a 'date' column)
DetectAnomaliesOf(rows, threshold) ==
    LET ds   == GroupByDate(rows, "date")
        q    == Column(ds, "quantity")
        mean == RollingMean(q, LagWindow)
        std  == RollingStd(q, LagWindow)
        z    == [i \in 1..Len(ds) |-> ZScore(q[i], mean[i], std[i])]
        hit  == SelectSeq([i \in 1..Len(ds) |-> i],
                          LAMBDA i : FGT(z[i], threshold))
    IN  [j \in 1..Len(hit) |->
            LET i == hit[j]
            IN  [date |-> ds[i].date,
                 quantity |-> Num(RInt(q[i])),
                 expected_quantity |-> mean[i],
                 deviation |-> Num(RSub(RInt(q[i]), mean[i].q)),
                 z_score |-> z[i],
                 severity |-> SeverityOf(z[i])]]

\* detect_anomalies(df, threshold): df.groupby('date') raises KeyError on a
\* frame without that column.
DetectAnomalies(threshold) ==
    /\ Before("detect_anomalies")
    /\ df # <<>>
    /\ pc' = "detect_anomalies"
    /\ args' = [op |-> "detect_anomalies", threshold |-> threshold]
    /\ IF HasColumn(df, "date")
       THEN /\ anomalies' = DetectAnomaliesOf(df, threshold)
            /\ returned' = returned \cup {"detect_anomalies"}
            /\ raised' = "none"
       ELSE /\ anomalies' = anomalies
            /\ returned' = returned
            /\ raised' = "KeyError"
    /\ UNCHANGED <<df, daily_sales, scalers, feature_importance, split,
                   current_data, forecasts, inventory_params, recommendations,
                   model, predict_calls>>

----------------------------------------------------------------------------
(* optimize_inventory                                                      *)

LeadTime == 7

OrderingCost == 100

DaysPerYear == 365

\* 1.645, the safety factor of the 95% service level
SafetyFactor == Rat(1645, 1000)

\* the frame a caller passes: the raw history or the feature frame
FrameOf(name) == IF name = "df" THEN df ELSE daily_sales

\* an order quantity that omits the factor 2 of the EOQ formula
EoqWithoutTwo(daily_demand, holding_cost) ==
    FSqrtDiv(RMul(RMul(daily_demand.q, RInt(DaysPerYear)), RInt(OrderingCost)),
             RMul(holding_cost, RInt(DaysPerYear)))

\* annual_demand = daily_demand * 365
\* eoq = np.sqrt(2 * annual_demand * ordering_cost / (holding_cost * 365))
Eoq(daily_demand, holding_cost) ==
    LET annual_demand == RMul(daily_demand.q, RInt(DaysPerYear))
    IN  FSqrtDiv(RMul(RMul(RInt(2), annual_demand), RInt(OrderingCost)),
                 RMul(holding_cost, RInt(DaysPerYear)))

\* a lead-time demand that is the demand of one day only
LeadTimeDemandOfOneDay(daily_demand) == daily_demand

\* lead_time_demand = daily_demand * lead_time
LeadTimeDemand(daily_demand) == FScale(daily_demand, RInt(LeadTime))

\* the dict optimize_inventory returns for the frame `rows` (a 'date' column)
OptimizeInventoryOf(rows, holding_cost) ==
    LET q                == Column(GroupByDate(rows, "date"), "quantity")
        daily_demand     == MeanRange(q, 1, Len(q))
        demand_std       == StdRange(q, 1, Len(q))
        lead_time_demand == LeadTimeDemand(daily_demand)
        lead_time_std    == FMulSqrt(demand_std, RInt(LeadTime))
        safety_stock     == FScale(lead_time_std, SafetyFactor)
        reorder_point    == FAdd(lead_time_demand, safety_stock)
    IN  [daily_demand |-> daily_demand,
         demand_std |-> demand_std,
         reorder_point |-> reorder_point,
         safety_stock |-> safety_stock,
         economic_order_quantity |-> Eoq(daily_demand, holding_cost),
         lead_time_days |-> LeadTime,
         service_level |-> Rat(95, 100)]

\* optimize_inventory(frame, holding_cost): df.groupby('date') raises KeyError
\* on a frame without that column.
OptimizeInventory(frame, holding_cost) ==
    /\ Before("optimize_inventory")
    /\ FrameOf(frame) # <<>>
    /\ pc' = "optimize_inventory"
    /\ args' = [op |-> "optimize_inventory", frame |-> frame,
                holding_cost |-> holding_cost]
    /\ IF HasColumn(FrameOf(frame), "date")
       THEN /\ inventory_params' = OptimizeInventoryOf(FrameOf(frame), holding_cost)
            /\ returned' = returned \cup {"optimize_inventory"}
            /\ raised' = "none"
       ELSE /\ inventory_params' = inventory_params
            /\ returned' = returned
            /\ raised' = "KeyError"
    /\ UNCHANGED <<df, daily_sales, scalers, feature_importance, split,
                   current_data, forecasts, anomalies, recommendations, model,
                   predict_calls>>

----------------------------------------------------------------------------
(* generate_recommendations                                                *)

\* the predicted quantities of a forecast list; a prediction is a clamped
\* score, a whole number in this model
Predicted(fc) == [k \in 1..Len(fc) |-> fc[k].predicted_quantity.q[1]]

MaxOf(q) == CHOOSE x \in {q[i] : i \in 1..Len(q)} : \A i \in 1..Len(q) : q[i] <= x

MinOf(q) == CHOOSE x \in {q[i] : i \in 1..Len(q)} : \A i \in 1..Len(q) : x <= q[i]

\* max_forecast > avg_forecast * 1.5
HighDemand(max_forecast, avg_forecast) ==
    RGT(RInt(max_forecast), RMul(avg_forecast, Rat(15, 10)))

\* min_forecast < avg_forecast * 0.5
LowDemand(min_forecast, avg_forecast) ==
    RGT(RMul(avg_forecast, Rat(5, 10)), RInt(min_forecast))

\* int((max_forecast - avg_forecast) / avg_forecast * 100), for avg > 0
ExcessPercent(max_forecast, avg_forecast) ==
    IntOf(Num(RMul(RDiv(RSub(RInt(max_forecast), avg_forecast), avg_forecast),
                   RInt(100))))

\* int(x) raises ValueError on NaN and OverflowError on infinity
IntRaises(f) == f.k # "num"

IntError(f) == IF f.k = "inf" THEN "OverflowError" ELSE "ValueError"

\* the list generate_recommendations returns, for a non-empty forecast list
\* and inventory parameters that int() accepts
GenerateRecommendationsOf(fc, params) ==
    LET q   == Predicted(fc)
        avg == MeanRange(q, 1, Len(q)).q
        mx  == MaxOf(q)
        mn  == MinOf(q)
        high == IF HighDemand(mx, avg)
                THEN <<[type |-> "high_demand_alert", severity |-> "high",
                        priority |-> 1, percent |-> ExcessPercent(mx, avg)]>>
                ELSE <<>>
        low  == IF LowDemand(mn, avg)
                THEN <<[type |-> "low_demand_alert", severity |-> "medium",
                        priority |-> 2]>>
                ELSE <<>>
    IN  high \o low \o
        <<[type |-> "inventory_optimization", severity |-> "info",
           priority |-> 3,
           reorder_point |-> IntOf(params.reorder_point),
           safety_stock |-> IntOf(params.safety_stock)]>>

\* generate_recommendations(store_id, forecasts, inventory_params), with the
\* forecast list and the parameters the caller got from forecast_demand and
\* optimize_inventory.  max() of an empty list raises ValueError; so does
\* int() of an undefined reorder point or safety stock.
GenerateRecommendations ==
    /\ Before("generate_recommendations")
    /\ {"forecast_demand", "optimize_inventory"} \subseteq returned
    /\ pc' = "generate_recommendations"
    /\ args' = [op |-> "generate_recommendations"]
    /\ IF \/ forecasts = <<>>
          \/ IntRaises(inventory_params.reorder_point)
          \/ IntRaises(inventory_params.safety_stock)
       THEN /\ raised' =
                  IF forecasts = <<>> THEN "ValueError"
                  ELSE IF IntRaises(inventory_params.reorder_point)
                       THEN IntError(inventory_params.reorder_point)
                       ELSE IntError(inventory_params.safety_stock)
            /\ UNCHANGED <<recommendations, returned>>
       ELSE /\ raised' = "none"
            /\ recommendations' =
                  GenerateRecommendationsOf(forecasts, inventory_params)
            /\ returned' = returned \cup {"generate_recommendations"}
    /\ UNCHANGED <<df, daily_sales, scalers, feature_importance, split,
                   current_data, forecasts, anomalies, inventory_params, model,
                   predict_calls>>

----------------------------------------------------------------------------
(* run_forecasting_pipeline                                                *)
(* One DemandForecaster serves every store.  The loop body is a try block: *)
(* an exception of any line of it is caught at the end of the body, and    *)
(* the loop goes on with the next store.  model.predict is taken to be a   *)
(* constant regressor here: every point of one forecast has one score.     *)

MinRecords == 100

PipelineDaysAhead == 30

\* a loop that ends the batch at the first store it is through with
StopBatch(outcome) ==
    /\ log' = Append(log, [store |-> store, outcome |-> outcome])
    /\ store' = store
    /\ step' = "done"

\* the loop is through with the store: `continue`, or the except clause,
\* or the end of the body
NextStore(outcome) ==
    /\ log' = Append(log, [store |-> store, outcome |-> outcome])
    /\ store' = store + 1
    /\ step' = "fetch"

\* df = forecaster.get_historical_sales(store_id, days=365), and the test
\* `df.empty or len(df) < 100`
PipeFetch ==
    /\ step = "fetch"
    /\ store <= Len(stores)
    /\ pc' = "init"
    /\ returned' = {}
    /\ args' = [op |-> "get_historical_sales", store |-> store]
    /\ IF stores[store].fetch = "error"
       THEN /\ raised' = "DatabaseError"
            /\ df' = df
            /\ NextStore("error")
       ELSE /\ raised' = "none"
            /\ df' = stores[store].rows
            /\ IF Len(stores[store].rows) < MinRecords
               THEN NextStore("insufficient")
               ELSE /\ step' = "features"
                    /\ UNCHANGED <<store, log>>
    /\ UNCHANGED <<daily_sales, scalers, feature_importance, split,
                   current_data, forecasts, anomalies, inventory_params,
                   recommendations, model, predict_calls, stores, sink>>
    /\ UNCHANGED etl

\* df_features = forecaster.create_features(df)
PipeFeatures ==
    /\ step = "features"
    /\ CreateFeatures
    /\ IF raised' = "none"
       THEN step' = "train" /\ UNCHANGED <<store, log>>
       ELSE NextStore("error")
    /\ UNCHANGED <<stores, sink>>
    /\ UNCHANGED etl

\* model, metrics = forecaster.train_model(df_features)
PipeTrain ==
    /\ step = "train"
    /\ TrainModel
    /\ IF raised' = "none"
       THEN step' = "forecast" /\ UNCHANGED <<store, log>>
       ELSE NextStore("error")
    /\ UNCHANGED <<stores, sink>>
    /\ UNCHANGED etl

\* forecasts = forecaster.forecast_demand(model, df_features, days_ahead=30)
PipeForecastBegin ==
    /\ step = "forecast"
    /\ ForecastBegin(model[Len(model)], PipelineDaysAhead)
    /\ UNCHANGED pipeline

PipeForecastStep ==
    /\ step = "forecast"
    /\ ForecastStep
    /\ \A i \in 1..Len(forecasts') :
          forecasts'[i].predicted_quantity = forecasts'[1].predicted_quantity
    /\ IF raised' = "none"
       THEN UNCHANGED <<store, step, log>>
       ELSE NextStore("error")
    /\ UNCHANGED <<stores, sink>>
    /\ UNCHANGED etl

PipeForecastReturn ==
    /\ step = "forecast"
    /\ ForecastReturn
    /\ step' = "anomalies"
    /\ UNCHANGED <<stores, store, log, sink>>
    /\ UNCHANGED etl

\* a sink that is written whether or not the lines before it succeeded
SinkAlways(succeeded, fc) ==
    Append(sink, [store |-> store, forecasts |-> fc])

\* forecaster.save_forecasts_to_db(store_id, forecasts) is the last line of
\* the try block: it is reached only when no line before it raised
SinkAfter(succeeded, fc) ==
    IF succeeded THEN Append(sink, [store |-> store, forecasts |-> fc])
    ELSE sink

\* the exception of the lines from detect_anomalies(df) to
\* generate_recommendations(...), or "none"
TailError ==
    IF ~HasColumn(df, "date") THEN "KeyError"
    ELSE IF forecasts = <<>> THEN "ValueError"
    ELSE LET params == OptimizeInventoryOf(df, <<1, 10>>)
         IN  IF IntRaises(params.reorder_point)
             THEN IntError(params.reorder_point)
             ELSE IF IntRaises(params.safety_stock)
                  THEN IntError(params.safety_stock)
                  ELSE "none"

\* anomalies = forecaster.detect_anomalies(df); inventory_params =
\* forecaster.optimize_inventory(df); recommendations =
\* forecaster.generate_recommendations(...); forecaster.save_forecasts_to_db(
\* store_id, forecasts).  Both detect_anomalies and optimize_inventory get
\* the raw history df, and group it by its 'date' column.
PipeTail ==
    /\ step = "anomalies"
    /\ args' = [op |-> "detect_anomalies", threshold |-> <<5, 2>>]
    /\ raised' = TailError
    /\ sink' = SinkAfter(TailError = "none", forecasts)
    /\ IF TailError = "none"
       THEN /\ anomalies' = DetectAnomaliesOf(df, <<5, 2>>)
            /\ inventory_params' = OptimizeInventoryOf(df, <<1, 10>>)
            /\ recommendations' =
                  GenerateRecommendationsOf(forecasts,
                                            OptimizeInventoryOf(df, <<1, 10>>))
            /\ pc' = "generate_recommendations"
            /\ returned' = returned \cup {"detect_anomalies",
                                          "optimize_inventory",
                                          "generate_recommendations"}
            /\ NextStore("saved")
       ELSE /\ pc' = "detect_anomalies"
            /\ UNCHANGED <<anomalies, inventory_params, recommendations,
                           returned>>
            /\ NextStore("error")
    /\ UNCHANGED <<df, daily_sales, scalers, feature_importance, split,
                   current_data, forecasts, model, predict_calls, stores>>
    /\ UNCHANGED etl

\* the list of stores is exhausted: "Forecasting pipeline completed!"
PipeFinish ==
    /\ step = "fetch"
    /\ store > Len(stores)
    /\ step' = "done"
    /\ UNCHANGED <<pc, df, daily_sales, scalers, feature_importance, split,
                   args, current_data, forecasts, anomalies, inventory_params,
                   recommendations, model, predict_calls, returned, raised,
                   stores, store, log, sink>>
    /\ UNCHANGED etl

----------------------------------------------------------------------------
(* Bounds of the histories and of the calls                                *)

MaxFeatureDays == 32

MaxTrainDays == 102

MaxForecastDays == 31

MaxDaysAhead == 3

MaxAnomalyDays == 60

MaxInventoryDays == 4

MaxRecDays == 2

MaxUndefined == 3

MaxTurns == 3

BaseQty == 2

SpikeQty == 5

----------------------------------------------------------------------------
(* The Feature Builder alone                                               *)

FeatureHistories ==
    { History(col, n, gap, dup, BaseQty, pos, SpikeQty) :
        col \in {"saleDate", "date"}, n \in 1..MaxFeatureDays, gap \in 0..1,
        dup \in 0..1, pos \in 0..2 }

InitFeatures == Constructed /\ df \in FeatureHistories

SpecFeatures == InitFeatures /\ [][CreateFeatures /\ UNCHANGED pipeline]_vars

\* every lag and rolling feature of the row is defined
RowDefined(row) ==
    \A c \in {"quantity_lag1", "quantity_lag7", "quantity_lag30",
              "quantity_rolling_mean_7", "quantity_rolling_std_7",
              "quantity_rolling_mean_30"} : ~IsNaN(row[c])

FeaturesReturned == pc = "create_features" /\ raised = "none"

\* C3: for a daily series of at least 30 distinct dates (30 included), every
\* lag and rolling feature of every row create_features returns is defined
\* after the back-fill and forward-fill.
C3_NoUndefinedFeatureFrom30 ==
    (FeaturesReturned /\ Len(daily_sales) >= 30)
        => \A i \in 1..Len(daily_sales) : RowDefined(daily_sales[i])

\* C20: for an input with fewer than 2 distinct dates, the lag-30 and the
\* rolling-30 features create_features returns are defined after the fill
\* and equal to the single available quantity value.
C20_SingleDateResolvesToItsValue ==
    (FeaturesReturned /\ Len(daily_sales) < 2) =>
        \A i \in 1..Len(daily_sales) :
            /\ daily_sales[i].quantity_lag30
                  = Num(<<daily_sales[i].quantity, 1>>)
            /\ daily_sales[i].quantity_rolling_mean_30
                  = Num(<<daily_sales[i].quantity, 1>>)

----------------------------------------------------------------------------
(* The Feature Builder followed by the Model Trainer                       *)

TrainHistories ==
    { History("saleDate", n, gap, dup, BaseQty, pos, SpikeQty) :
        n \in (MinTrainRows - 3)..MaxTrainDays, gap \in 0..1, dup \in 0..1,
        pos \in 0..2 }

InitTrain == Constructed /\ df \in TrainHistories

NextTrain ==
    \/ CreateFeatures /\ UNCHANGED pipeline
    \/ TrainModel /\ UNCHANGED pipeline

SpecTrain == InitTrain /\ [][NextTrain]_vars

TrainReturned == pc = "train_model" /\ raised = "none"

SeqRange(s) == {s[i] : i \in 1..Len(s)}

\* C4: on the date-ascending rows of create_features, n >= 100 of them
\* usable, the training partition is exactly the first floor(0.8 n) rows and
\* the evaluation partition exactly the rest: both non-empty, disjoint,
\* together all rows, the last training date before the first evaluation date.
C4_ChronologicalSplit ==
    TrainReturned =>
        LET n  == Len(daily_sales)
            tr == split.X_train
            te == split.X_test
        IN  /\ n >= 100
            /\ \A i \in 1..(n - 1) : daily_sales[i].date < daily_sales[i + 1].date
            /\ 5 * Len(tr) <= 4 * n /\ 4 * n < 5 * (Len(tr) + 1)
            /\ tr \o te = [i \in 1..n |-> daily_sales[i].date]
            /\ tr # <<>> /\ te # <<>>
            /\ SeqRange(tr) \cap SeqRange(te) = {}
            /\ tr[Len(tr)] < te[1]

C4_Witness ==
    /\ TrainReturned
    /\ Len(daily_sales) = 101
    /\ Len(split.X_train) = 80
    /\ Len(split.X_test) = 21

----------------------------------------------------------------------------
(* The Model Trainer called on a feature frame built elsewhere             *)
(* train_model takes any frame with the feature columns; these frames have *)
(* the lag-30 value of their first rows left undefined, as it is before    *)
(* the fill.                                                               *)

\* the frame with quantity_lag30 undefined in its first k rows
LeftUndefined(frame, k) ==
    [i \in 1..Len(frame) |->
        IF i <= k THEN [frame[i] EXCEPT !.quantity_lag30 = NaN] ELSE frame[i]]

HeldFrames ==
    LET filled ==
          { CreateFeaturesOf(History("saleDate", n, 0, 0, BaseQty, pos, SpikeQty)) :
              n \in (MinTrainRows - 1)..MaxTrainDays, pos \in 0..6 }
    IN  { LeftUndefined(f, k) : f \in filled, k \in 0..MaxUndefined }

InitTrainHeld ==
    /\ pc = "init"
    /\ df = <<>>
    /\ daily_sales \in HeldFrames
    /\ scalers = {}
    /\ feature_importance = {}
    /\ model = <<>>
    /\ split = <<>>
    /\ args = NoCall
    /\ current_data = <<>>
    /\ forecasts = <<>>
    /\ anomalies = <<>>
    /\ inventory_params = <<>>
    /\ recommendations = <<>>
    /\ predict_calls = <<>>
    /\ returned = {}
    /\ raised = "none"
    /\ NoPipeline

SpecTrainHeld == InitTrainHeld /\ [][TrainModel /\ UNCHANGED pipeline]_vars

\* the rows of the frame none of whose feature values is undefined
DefinedRows(frame) == {i \in 1..Len(frame) : RowDefined(frame[i])}

\* C12: train_model fails with the insufficient-data error and returns no
\* model whenever fewer than 100 rows are left once every row with an
\* undefined feature or target value is removed; a row with an undefined
\* feature does not count as usable.
C12_InsufficientWithoutUndefinedRows ==
    (pc = "train_model" /\ Cardinality(DefinedRows(daily_sales)) < 100) =>
        /\ raised = "ValueError"
        /\ model = <<>>
        /\ "train_model" \notin returned

\* the same, counting every row of the frame as the code does after fillna(0)
InsufficientByRowCount ==
    (pc = "train_model" /\ Len(daily_sales) < 100) =>
        /\ raised = "ValueError"
        /\ model = <<>>
        /\ "train_model" \notin returned

----------------------------------------------------------------------------
(* The Forecaster                                                          *)
(* forecast_demand is called with a model and any feature history; the     *)
(* forecaster either was never trained or holds the scaler of an earlier   *)
(* training, on another history of MinTrainRows rows.                      *)

EarlierFit ==
    [rows |-> TrainSize(MinTrainRows), first |-> 0,
     total |-> TrainSize(MinTrainRows)]

TrainedEarlier ==
    /\ Idle
    /\ scalers = SetItem({}, "demand", EarlierFit)
    /\ feature_importance = SetItem({}, "demand", EarlierFit)
    /\ model = <<EarlierFit>>

ForecastHistories ==
    { History("saleDate", n, gap, 0, BaseQty, 0, SpikeQty) :
        n \in 1..MaxForecastDays, gap \in 0..1 }

InitForecast == (Constructed \/ TrainedEarlier) /\ df \in ForecastHistories

NextForecast ==
    \/ CreateFeatures /\ UNCHANGED pipeline
    \/ \E m \in HeldModels, days_ahead \in 0..MaxDaysAhead :
          ForecastBegin(m, days_ahead) /\ UNCHANGED pipeline
    \/ ForecastStep /\ UNCHANGED pipeline
    \/ ForecastReturn /\ UNCHANGED pipeline

SpecForecast == InitForecast /\ [][NextForecast]_vars

ForecastReturned == pc = "forecast_demand" /\ "forecast_demand" \in returned

\* C1: forecast_demand returns exactly days_ahead points (days_ahead >= 0,
\* a non-empty feature history); point k is dated k days after the latest
\* date of the history.
C1_ConsecutiveDates ==
    ForecastReturned =>
        LET last == daily_sales[Len(daily_sales)].date
        IN  /\ \A i \in 1..Len(daily_sales) : daily_sales[i].date <= last
            /\ Len(forecasts) = args.days_ahead
            /\ \A k \in 1..Len(forecasts) : forecasts[k].date = last + k

C1_Witness ==
    /\ ForecastReturned
    /\ Len(daily_sales) = 1
    /\ args.days_ahead = 3
    /\ forecasts[3].date = daily_sales[1].date + 3

\* C2: every forecast point has predicted_quantity >= 0 whatever the model
\* scored (a negative score gives 0), lower = 0.8 x predicted and
\* upper = 1.2 x predicted, so lower <= predicted <= upper.
C2_ClampedWithBounds ==
    \A k \in 1..Len(forecasts) :
        LET f     == forecasts[k]
            p     == f.predicted_quantity
            lo    == f.confidence_interval_lower
            hi    == f.confidence_interval_upper
            score == predict_calls[k].score
        IN  /\ IsRat(p) /\ IsRat(lo) /\ IsRat(hi)
            /\ p.q[1] >= 0
            /\ p.q = (IF score < 0 THEN <<0, 1>> ELSE <<score, 1>>)
            /\ RMul(lo.q, <<10, 1>>) = RMul(p.q, <<8, 1>>)
            /\ RMul(hi.q, <<10, 1>>) = RMul(p.q, <<12, 1>>)
            /\ RGE(p.q, lo.q) /\ RGE(hi.q, p.q)

C2_Witness ==
    /\ ForecastReturned
    /\ Len(forecasts) = 2
    /\ predict_calls[1].score < 0
    /\ forecasts[1].predicted_quantity = Num(<<0, 1>>)
    /\ forecasts[2].predicted_quantity = Num(<<4, 1>>)
    /\ forecasts[2].confidence_interval_lower = Num(<<16, 5>>)
    /\ forecasts[2].confidence_interval_upper = Num(<<24, 5>>)

\* no train_model call has stored a scaler in the forecaster
Untrained == ~HasKey(scalers, "demand")

\* C18: forecast_demand on a forecaster on which no train_model call has
\* succeeded fails with the missing-scaler error and returns no forecast
\* point, for every requested days_ahead.
C18_MissingScalerFails ==
    (pc = "forecast_demand" /\ Untrained) =>
        /\ raised = "KeyError"
        /\ forecasts = <<>>
        /\ "forecast_demand" \notin returned

\* the same for a days_ahead of one day or more
MissingScalerFailsFromOneDay ==
    (pc = "forecast_demand" /\ Untrained /\ args.days_ahead >= 1) =>
        /\ raised = "KeyError"
        /\ forecasts = <<>>
        /\ "forecast_demand" \notin returned

----------------------------------------------------------------------------
(* The Anomaly Detector                                                    *)
(* Series of 50 units a day, one day of 10,000 units at any position or    *)
(* none, of about LagWindow dates and of about MaxAnomalyDays dates.       *)

Thresholds == {<<-1, 1>>, <<0, 1>>, <<5, 2>>, <<3, 1>>, <<6, 1>>}

AnomalyHistories ==
    { History("date", n, 0, 0, 50, pos, 10000) :
        n \in (LagWindow - 1)..(LagWindow + 1)
                 \cup (MaxAnomalyDays - 1)..MaxAnomalyDays,
        pos \in 0..MaxAnomalyDays }
    \cup { History("saleDate", LagWindow, 0, 0, 50, 0, 10000) }

InitAnomaly == Constructed /\ df \in AnomalyHistories

SpecAnomaly ==
    InitAnomaly
    /\ [][\E threshold \in Thresholds :
              DetectAnomalies(threshold) /\ UNCHANGED pipeline]_vars

AnomaliesReturned == pc = "detect_anomalies" /\ raised = "none"

\* the dates of the first k chronological observations of the frame
FirstDates(rows, k) ==
    LET ds == GroupByDate(rows, "date")
    IN  {ds[i].date : i \in 1..(IF Len(ds) < k THEN Len(ds) ELSE k)}

\* C5: for every series and threshold, no returned anomaly is dated on one
\* of the first 30 chronological observations (positions 1 to 30).
C5_NeverFlagsFirst30 ==
    AnomaliesReturned =>
        \A j \in 1..Len(anomalies) : anomalies[j].date \notin FirstDates(df, 30)

\* the positions of the 10,000-unit day in a 60-day series otherwise flat at
\* 50 units a day
SpikeDays ==
    IF /\ Len(df) = 60
       /\ \A i \in 1..Len(df) : df[i].quantity \in {50, 10000}
       /\ Cardinality({i \in 1..Len(df) : df[i].quantity = 10000}) = 1
    THEN {i \in 1..Len(df) : df[i].quantity = 10000}
    ELSE {}

\* the day at position i of the frame is returned with severity high
FlaggedHigh(i) ==
    \E j \in 1..Len(anomalies) :
        /\ anomalies[j].date = df[i].date
        /\ anomalies[j].quantity = Num(<<df[i].quantity, 1>>)
        /\ anomalies[j].severity = "high"

DefaultThreshold == AnomaliesReturned /\ args.threshold = <<5, 2>>

\* C10 as claimed: a single day of 10,000 units at any position of an
\* otherwise flat 50-unit 60-day series is returned with severity high under
\* the default threshold 2.5.
C10_SpikeFlaggedAnywhere ==
    DefaultThreshold => \A i \in SpikeDays : FlaggedHigh(i)

\* C10 as amended: the 10,000-unit day is returned with severity high when
\* it is at any of the positions 31 to 60, and is not returned when it is at
\* any of the positions 1 to 29.
C10_SpikeFlaggedFrom31 ==
    DefaultThreshold =>
        \A i \in SpikeDays :
            /\ i >= 31 => FlaggedHigh(i)
            /\ i <= 29 => \A j \in 1..Len(anomalies) :
                              anomalies[j].date # df[i].date

C10_Witness ==
    /\ DefaultThreshold
    /\ SpikeDays = {45}
    /\ FlaggedHigh(45)
    /\ Len(anomalies) = 1
    /\ anomalies[1].z_score = Root(<<841, 30>>)

\* the positions of the daily series whose 30-observation window is not
\* full (undefined std) or holds one value only (zero std)
NoSpreadDays(rows) ==
    LET q == Column(GroupByDate(rows, "date"), "quantity")
    IN  {i \in 1..Len(q) :
            \/ i < 30
            \/ \A k \in (i - 29)..i : q[k] = q[i]}

\* C14: a day whose rolling 30-observation standard deviation is zero or
\* undefined is never returned as an anomaly, whatever the threshold.
C14_NoSpreadDayNeverReturned ==
    AnomaliesReturned =>
        LET ds == GroupByDate(df, "date")
        IN  \A i \in NoSpreadDays(df) :
                \A j \in 1..Len(anomalies) : anomalies[j].date # ds[i].date

C14_Witness ==
    /\ AnomaliesReturned
    /\ args.threshold = <<-1, 1>>
    /\ SpikeDays = {45}
    /\ NoSpreadDays(df) = 1..44
    /\ Len(anomalies) = 16
    /\ anomalies[1].date = df[45].date

\* C21: every returned anomaly has a z_score strictly greater than the
\* threshold, its severity is high exactly when its z_score exceeds 3 and
\* medium otherwise, and with a threshold of 3 or more no medium anomaly
\* is returned.
C21_AboveThresholdAndSeverity ==
    AnomaliesReturned =>
        \A j \in 1..Len(anomalies) :
            /\ IsNum(anomalies[j].z_score)
            /\ FGT(anomalies[j].z_score, args.threshold)
            /\ anomalies[j].severity \in {"high", "medium"}
            /\ anomalies[j].severity = "high"
                    <=> FGT(anomalies[j].z_score, <<3, 1>>)
            /\ RGE(args.threshold, <<3, 1>>)
                    => anomalies[j].severity # "medium"

C21_Witness ==
    /\ AnomaliesReturned
    /\ args.threshold = <<0, 1>>
    /\ SpikeDays = {45}
    /\ Len(anomalies) = 16
    /\ anomalies[1].severity = "high"
    /\ anomalies[1].z_score = Root(<<841, 30>>)
    /\ anomalies[2].severity = "medium"
    /\ anomalies[2].z_score = Root(<<1, 30>>)

\* the mean of the 30 observations before position i of the daily series,
\* position i itself left out (undefined with fewer than 30 before it)
MeanOfPreceding30(rows, i) ==
    LET q == Column(GroupByDate(rows, "date"), "quantity")
    IN  IF i > 30 THEN MeanRange(q, i - 30, i - 1) ELSE NaN

\* C23: the expected_quantity reported for a returned day is the mean of
\* the 30 observations preceding that day, the day's own quantity not
\* included.
C23_ScoredAgainstPreceding30 ==
    AnomaliesReturned =>
        LET ds == GroupByDate(df, "date")
        IN  \A j \in 1..Len(anomalies) :
                \A i \in 1..Len(ds) :
                    ds[i].date = anomalies[j].date =>
                        anomalies[j].expected_quantity
                            = MeanOfPreceding30(df, i)

----------------------------------------------------------------------------
(* The Inventory Optimizer                                                 *)

HoldingCosts == {<<0, 1>>, <<1, 10>>, <<1, 2>>, <<3, 1>>}

\* 400 consecutive days of 100 units each
ConstantDemand == History("date", 400, 0, 0, 100, 0, 100)

InventoryHistories ==
    { History("date", n, gap, dup, base, pos, SpikeQty) :
        n \in 1..MaxInventoryDays, gap \in 0..1, dup \in 0..1,
        base \in {0, BaseQty}, pos \in 0..MaxInventoryDays }
    \cup { History("saleDate", 1, 0, 0, BaseQty, 0, SpikeQty) }
    \cup { ConstantDemand }

InitInventory == Constructed /\ df \in InventoryHistories

SpecInventory ==
    InitInventory
    /\ [][\E h \in HoldingCosts :
              OptimizeInventory("df", h) /\ UNCHANGED pipeline]_vars

InventoryReturned == pc = "optimize_inventory" /\ raised = "none"

\* the total quantity of the frame and the number of its distinct dates
TotalQuantity(rows) == SumRange(Column(rows, "quantity"), 1, Len(rows))

DateCount(rows) == Cardinality({rows[i].date : i \in 1..Len(rows)})

\* C6: for every accepted series, one of a single date included, the
\* returned reorder_point is leadTimeDemand + safety_stock with
\* safety_stock >= 0, hence reorder_point >= mean daily demand x 7.
C6_ReorderPointAtLeastLeadTimeDemand ==
    InventoryReturned =>
        LET lead_time_demand == Rat(7 * TotalQuantity(df), DateCount(df))
            ss == inventory_params.safety_stock
            rp == inventory_params.reorder_point
        IN  /\ IsNum(ss) /\ IsNum(rp)
            /\ FGE(ss, <<0, 1>>)
            /\ rp.q = RAdd(lead_time_demand, ss.q) /\ rp.r = ss.r
            /\ FGE(rp, lead_time_demand)

\* C7: economic_order_quantity = sqrt(2 x (mean x 365) x 100 / (holding_cost
\* x 365)), and for a positive holding_cost it is 0 if and only if the annual
\* demand (mean x 365) is 0.
C7_EoqFormulaAndZero ==
    (InventoryReturned /\ args.holding_cost[1] > 0) =>
        LET annual == Rat(365 * TotalQuantity(df), DateCount(df))
            h      == args.holding_cost
            eoq    == inventory_params.economic_order_quantity
        IN  /\ IsNum(eoq) /\ eoq.q = <<0, 1>>
            /\ RMul(eoq.r, RMul(h, <<365, 1>>)) = RMul(<<200, 1>>, annual)
            /\ (eoq.r = <<0, 1>>) <=> (annual = <<0, 1>>)

C7_Witness ==
    /\ InventoryReturned
    /\ args.holding_cost = <<1, 10>>
    /\ DateCount(df) = 1
    /\ TotalQuantity(df) = 2
    /\ inventory_params.economic_order_quantity = Root(<<4000, 1>>)

\* C11: for a demand constant at 100 units over 400 days and holding cost
\* 0.1, optimize_inventory returns demand_std = 0, safety_stock = 0,
\* reorder_point = 700, lead_time_days = 7 and an economic_order_quantity
\* whose square is 200000.
C11_ConstantDemandScenario ==
    (InventoryReturned /\ df = ConstantDemand /\ args.holding_cost = <<1, 10>>) =>
        /\ inventory_params.daily_demand = Num(<<100, 1>>)
        /\ inventory_params.demand_std = Num(<<0, 1>>)
        /\ inventory_params.safety_stock = Num(<<0, 1>>)
        /\ inventory_params.reorder_point = Num(<<700, 1>>)
        /\ inventory_params.lead_time_days = 7
        /\ inventory_params.economic_order_quantity = Root(<<200000, 1>>)

C11_Witness ==
    /\ InventoryReturned
    /\ Len(df) = 400
    /\ HasColumn(df, "date")
    /\ \A i \in 1..Len(df) : df[i].quantity = 100 /\ df[i].date = i - 1
    /\ args.holding_cost = <<1, 10>>
    /\ inventory_params.reorder_point = Num(<<700, 1>>)

\* the daily demand of the frame has a zero or an undefined standard
\* deviation: every date sold the same quantity, or there is one date only
NoSpread(rows) ==
    LET q == Column(GroupByDate(rows, "date"), "quantity")
    IN  \A i, j \in 1..Len(q) : q[i] = q[j]

\* C13: when the standard deviation of the daily demand is zero or
\* undefined (one date only), optimize_inventory raises no error and returns
\* safety_stock = 0 and a defined reorder_point equal to the lead-time demand.
C13_ZeroSafetyStockWithoutSpread ==
    (pc = "optimize_inventory" /\ HasColumn(df, "date") /\ NoSpread(df)) =>
        /\ raised = "none"
        /\ inventory_params.safety_stock = Num(<<0, 1>>)
        /\ inventory_params.reorder_point
              = Num(Rat(7 * TotalQuantity(df), DateCount(df)))

\* the same for two or more dates, where the standard deviation is defined
ZeroSafetyStockAtZeroSpread ==
    (pc = "optimize_inventory" /\ HasColumn(df, "date") /\ NoSpread(df)
        /\ DateCount(df) >= 2) =>
        /\ raised = "none"
        /\ inventory_params.safety_stock = Num(<<0, 1>>)
        /\ inventory_params.reorder_point
              = Num(Rat(7 * TotalQuantity(df), DateCount(df)))

----------------------------------------------------------------------------
(* The Recommendation Generator, fed by the Forecaster and the Optimizer   *)

RecHistories ==
    { History("saleDate", n, 0, 0, BaseQty, 0, SpikeQty) : n \in 1..MaxRecDays }

InitRecs == TrainedEarlier /\ df \in RecHistories

NextRecs ==
    \/ CreateFeatures /\ UNCHANGED pipeline
    \/ \E m \in HeldModels, days_ahead \in 0..MaxDaysAhead :
          ForecastBegin(m, days_ahead) /\ UNCHANGED pipeline
    \/ ForecastStep /\ UNCHANGED pipeline
    \/ ForecastReturn /\ UNCHANGED pipeline
    \/ OptimizeInventory("daily_sales", <<1, 10>>) /\ UNCHANGED pipeline
    \/ GenerateRecommendations /\ UNCHANGED pipeline

SpecRecs == InitRecs /\ [][NextRecs]_vars

RecsCalled == pc = "generate_recommendations"

RecsReturned == RecsCalled /\ raised = "none"

CountType(recs, t) == Cardinality({i \in 1..Len(recs) : recs[i].type = t})

\* C8: every call of generate_recommendations, one with an empty forecast
\* sequence included, returns exactly one inventory_optimization
\* recommendation, at most one high_demand_alert and at most one
\* low_demand_alert.
C8_RuleThreeExactlyOnce ==
    RecsCalled =>
        /\ raised = "none"
        /\ CountType(recommendations, "inventory_optimization") = 1
        /\ CountType(recommendations, "high_demand_alert") <= 1
        /\ CountType(recommendations, "low_demand_alert") <= 1

HasAlert(recs, t, sev, prio) ==
    \E i \in 1..Len(recs) :
        recs[i].type = t /\ recs[i].severity = sev /\ recs[i].priority = prio

\* the alerts of the returned list follow the forecast quantities q: the
\* high one is there iff max > 1.5 x mean, the low one iff min < 0.5 x mean,
\* and the priorities ascend
AlertsFollow(recs, q) ==
    LET n == Len(q)
        S == SumRange(q, 1, n)
    IN  /\ HasAlert(recs, "high_demand_alert", "high", 1)
              <=> (\E i \in 1..n : 2 * n * q[i] > 3 * S)
        /\ CountType(recs, "high_demand_alert") = 1
              <=> (\E i \in 1..n : 2 * n * q[i] > 3 * S)
        /\ HasAlert(recs, "low_demand_alert", "medium", 2)
              <=> (\E i \in 1..n : 2 * n * q[i] < S)
        /\ CountType(recs, "low_demand_alert") = 1
              <=> (\E i \in 1..n : 2 * n * q[i] < S)
        /\ \A i \in 1..(Len(recs) - 1) : recs[i].priority < recs[i + 1].priority

\* C9: for every non-empty sequence of non-negative forecast quantities the
\* call emits the high-severity priority-1 alert iff max > 1.5 x mean and
\* the medium-severity priority-2 alert iff min < 0.5 x mean, each decided
\* on its own, in a list of ascending priority.
C9_AlertsIffAndOrdered ==
    (RecsCalled /\ forecasts # <<>>) =>
        /\ \A i \in 1..Len(forecasts) : Predicted(forecasts)[i] >= 0
        /\ raised = "none"
        /\ AlertsFollow(recommendations, Predicted(forecasts))

\* the same whenever the call returns its list
AlertsFollowOnReturn ==
    RecsReturned => AlertsFollow(recommendations, Predicted(forecasts))

BothAlertsReturned ==
    /\ RecsReturned
    /\ Predicted(forecasts) = <<0, 4, 0>>
    /\ Len(recommendations) = 3
    /\ recommendations[1].type = "high_demand_alert"
    /\ recommendations[1].percent = 200
    /\ recommendations[2].type = "low_demand_alert"
    /\ recommendations[3].type = "inventory_optimization"
    /\ recommendations[3].reorder_point = 7 * BaseQty
    /\ recommendations[3].safety_stock = 0


----------------------------------------------------------------------------
(* The pipeline over a list of one or two stores                           *)
(* A store's fetch fails, or yields no record, 99 records, 100 records on  *)
(* 99 dates, or 100 or 101 records on as many dates.                       *)

StoreStates ==
    { [fetch |-> "error", rows |-> <<>>], [fetch |-> "ok", rows |-> <<>>] }
    \cup { [fetch |-> "ok",
            rows |-> History("saleDate", n, 0, dup, BaseQty, 0, SpikeQty)] :
            n \in (MinRecords - 1)..(MinRecords + 1), dup \in 0..1 }

StoreLists ==
    { <<a>> : a \in StoreStates } \cup { <<a, b>> : a, b \in StoreStates }

InitPipeline ==
    /\ pc = "init"
    /\ df = <<>>
    /\ daily_sales = <<>>
    /\ scalers = {}
    /\ feature_importance = {}
    /\ model = <<>>
    /\ split = <<>>
    /\ args = NoCall
    /\ current_data = <<>>
    /\ forecasts = <<>>
    /\ anomalies = <<>>
    /\ inventory_params = <<>>
    /\ recommendations = <<>>
    /\ predict_calls = <<>>
    /\ returned = {}
    /\ raised = "none"
    /\ stores \in StoreLists
    /\ store = 1
    /\ step = "fetch"
    /\ log = <<>>
    /\ sink = <<>>
    /\ NoEtl

NextPipeline ==
    \/ PipeFetch
    \/ PipeFeatures
    \/ PipeTrain
    \/ PipeForecastBegin
    \/ PipeForecastStep
    \/ PipeForecastReturn
    \/ PipeTail
    \/ PipeFinish

SpecPipeline == InitPipeline /\ [][NextPipeline]_vars

\* Every call of the loop body returns or raises, so the loop does not halt
\* before its end: as long as it is not done, it takes its next step.  The
\* steps of NextPipeline are enabled exactly while step # "done".
SpecPipelineFair ==
    SpecPipeline /\ ([]<>(step = "done") \/ []<><<NextPipeline>>_vars)

\* the stores of the list whose history has fewer than 100 records (none
\* included) or whose fetch fails
Unfit(i) == stores[i].fetch = "error" \/ Len(stores[i].rows) < 100

\* the stores the sink was called for
SinkStores == {sink[k].store : k \in 1..Len(sink)}

\* C15: a store with no or fewer than 100 records, or whose processing
\* raises at any step, is skipped, every later store of the list is still
\* processed, and the batch always reaches completion.
C15_BatchCompletes ==
    <>(/\ step = "done"
       /\ Len(log) = Len(stores)
       /\ \A i \in 1..Len(stores) :
             /\ log[i].store = i
             /\ Unfit(i) => log[i].outcome \in {"insufficient", "error"}
             /\ log[i].outcome # "saved" => i \notin SinkStores)

C15_Witness ==
    /\ step = "done"
    /\ Len(stores) = 2
    /\ Cardinality({stores[1].rows[k].saleDate : k \in 1..Len(stores[1].rows)}) = 99
    /\ Len(stores[1].rows) = 100
    /\ log[1] = [store |-> 1, outcome |-> "error"]
    /\ stores[2].fetch = "ok"
    /\ df = stores[2].rows
    /\ Len(daily_sales) = 101
    /\ log[2].store = 2

\* C16: save_forecasts_to_db is called for a store only after the store's
\* complete 30-point forecast and every other step succeeded, never with a
\* partial forecast and never for a store one of whose steps failed: per
\* store the sink gets the full sequence or nothing.
C16_SinkFullOrNothing ==
    /\ \A k \in 1..Len(sink) :
          /\ Len(sink[k].forecasts) = 30
          /\ [store |-> sink[k].store, outcome |-> "saved"]
                \in {log[j] : j \in 1..Len(log)}
    /\ \A j \in 1..Len(log) : log[j].outcome # "saved" => log[j].store \notin SinkStores
    /\ step \notin {"fetch", "done"} => store \notin SinkStores
    /\ \A k, l \in 1..Len(sink) : sink[k].store = sink[l].store => k = l

C16_Witness ==
    /\ step = "fetch"
    /\ store = 2
    /\ Len(forecasts) = 30
    /\ raised = "KeyError"
    /\ log = <<[store |-> 1, outcome |-> "error"]>>
    /\ sink = <<>>

\* the number of distinct sale dates of a store's history
SaleDates(i) ==
    Cardinality({stores[i].rows[k].saleDate : k \in 1..Len(stores[i].rows)})

\* C17: for a store whose fetched history has at least 100 records on at
\* least 100 distinct sale dates, one run of the pipeline goes through
\* feature building, training, forecasting, anomaly detection on the raw
\* history, inventory optimization and recommendation generation, and hands
\* the store's forecast to the sink.
C17_FitStoreSaved ==
    step = "done" =>
        \A i \in 1..Len(stores) :
            (stores[i].fetch = "ok" /\ Len(stores[i].rows) >= 100
                /\ SaleDates(i) >= 100)
            => /\ log[i].outcome = "saved"
               /\ \E k \in 1..Len(sink) :
                     sink[k].store = i /\ Len(sink[k].forecasts) = 30

----------------------------------------------------------------------------
(* One forecaster, several stores, calls in any order                      *)
(* The caller holds the history of each store and every model train_model  *)
(* has returned.  It turns to a store, builds its features, and trains on  *)
(* them or forecasts from them with the model it got for that store.       *)

TrainingStores ==
    { [fetch |-> "ok",
       rows |-> History("saleDate", MinTrainRows, 0, 0, base, 0, SpikeQty)] :
        base \in {BaseQty, SpikeQty} }
    \cup { [fetch |-> "ok",
            rows |-> History("saleDate", MinTrainRows - 1, 0, 0, BaseQty, 0,
                             SpikeQty)] }

InitStores ==
    /\ pc = "init"
    /\ df = <<>>
    /\ daily_sales = <<>>
    /\ scalers = {}
    /\ feature_importance = {}
    /\ model = <<>>
    /\ split = <<>>
    /\ args = NoCall
    /\ current_data = <<>>
    /\ forecasts = <<>>
    /\ anomalies = <<>>
    /\ inventory_params = <<>>
    /\ recommendations = <<>>
    /\ predict_calls = <<>>
    /\ returned = {}
    /\ raised = "none"
    /\ stores \in { <<a, b>> : a, b \in TrainingStores }
    /\ store = 0
    /\ step = "none"
    /\ log = <<>>
    /\ sink = <<>>
    /\ NoEtl

\* the caller turns to store i: it takes up the store's history and starts
\* the calls for it from create_features
TurnTo(i) ==
    /\ pc # "forecast_loop"
    /\ Len(log) < MaxTurns
    /\ store' = i
    /\ log' = Append(log, [store |-> i, outcome |-> "turn"])
    /\ df' = stores[i].rows
    /\ daily_sales' = <<>>
    /\ pc' = "init"
    /\ args' = NoCall
    /\ returned' = {}
    /\ raised' = "none"
    /\ UNCHANGED <<scalers, feature_importance, split, current_data,
                   forecasts, anomalies, inventory_params, recommendations,
                   model, predict_calls, stores, step, sink>>
    /\ UNCHANGED etl

\* the model was trained on the feature frame the caller holds now
OwnModel(m) ==
    /\ daily_sales # <<>>
    /\ m = FitOf(daily_sales, UsableRows(daily_sales))

NextStores ==
    \/ \E i \in 1..Len(stores) : TurnTo(i)
    \/ CreateFeatures /\ UNCHANGED pipeline
    \/ TrainModel /\ UNCHANGED pipeline
    \/ \E m \in HeldModels, days_ahead \in 0..1 :
          OwnModel(m) /\ ForecastBegin(m, days_ahead) /\ UNCHANGED pipeline
    \/ ForecastStep /\ UNCHANGED pipeline
    \/ ForecastReturn /\ UNCHANGED pipeline

SpecStores == InitStores /\ [][NextStores]_vars

\* C19: over any sequence of train_model and forecast_demand calls made for
\* several stores, the scaler forecast_demand applies to a store's feature
\* vectors is the one fitted together with the model passed in, that of the
\* store's own training, never that of another store.
C19_ScalerOfModelPassed ==
    \A k \in 1..Len(predict_calls) :
        predict_calls[k].scaler = predict_calls[k].model

\* C24: a train_model call that fails with the insufficient-data error
\* leaves the forecaster's stored scaler and feature-importance entries
\* exactly as they were before the call: those of the previously trained
\* store, or none.
C24_FailedTrainingStoresNothing ==
    [][(pc # "train_model" /\ pc' = "train_model"
            /\ raised' = "ValueError")
        => /\ scalers' = scalers
           /\ feature_importance' = feature_importance]_vars

\* the 99-day second store has failed to train after the first store was
\* trained, and the forecaster holds the first store's scaler
C24_Witness ==
    /\ pc = "train_model"
    /\ raised = "ValueError"
    /\ store = 2
    /\ Len(UsableRows(daily_sales)) = MinTrainRows - 1
    /\ Len(model) = 1
    /\ HasKey(scalers, "demand")
    /\ ScalerOf(scalers, "demand") = model[1]
    /\ ScalerOf(feature_importance, "demand") = model[1]
    /\ model[1] = LET f == CreateFeaturesOf(stores[1].rows)
                   IN  FitOf(f, UsableRows(f))

----------------------------------------------------------------------------
(* A forecast longer than a week                                           *)
(* forecast_demand runs MaxLagSteps iterations on short histories whose    *)
(* quantities (BaseQty, SpikeQty) differ from every clamped score, with a  *)
(* regressor that scores -3 or 4 at each call.                             *)

MaxLagSteps == 9

LagScores == {-3, 4}

LagHistories ==
    UNION { { History("saleDate", n, 0, 0, BaseQty, pos, SpikeQty) :
                pos \in {0, 2, n} } : n \in {3, 7, 8} }

InitLags == TrainedEarlier /\ df \in LagHistories

NextLags ==
    \/ CreateFeatures /\ UNCHANGED pipeline
    \/ \E m \in HeldModels :
          ForecastBegin(m, MaxLagSteps) /\ UNCHANGED pipeline
    \/ /\ ForecastStep
       /\ predict_calls'[Len(predict_calls')].score \in LagScores
       /\ UNCHANGED pipeline
    \/ ForecastReturn /\ UNCHANGED pipeline

SpecLags == InitLags /\ [][NextLags]_vars

\* the clamped prediction of step k, from the score the regressor returned
ClampedPrediction(k) ==
    Num(RInt(IF predict_calls[k].score < 0 THEN 0
             ELSE predict_calls[k].score))

\* C22: each clamped prediction is appended to the working window before
\* the features of the next step are built: the lag-1 feature of step 1 is
\* the last observed quantity, the lag-1 feature of every step k >= 2 is the
\* clamped prediction of step k-1, and with at least 7 points of history
\* the lag-7 feature of step k > 7 is the prediction of step k-7.
C22_LagsFollowPredictions ==
    /\ pc = "forecast_loop" =>
          /\ Len(current_data)
                = Len(TailRows(daily_sales, 30)) + Len(forecasts)
          /\ \A k \in 1..Len(forecasts) :
                Num(RInt(current_data[Len(current_data)
                                      - Len(forecasts) + k].quantity))
                    = ClampedPrediction(k)
    /\ \A k \in 1..Len(predict_calls) :
          LET x == predict_calls[k].X_new
          IN  /\ forecasts[k].predicted_quantity = ClampedPrediction(k)
              /\ k = 1 =>
                    x.quantity_lag1
                        = Num(RInt(daily_sales[Len(daily_sales)].quantity))
              /\ k >= 2 => x.quantity_lag1 = ClampedPrediction(k - 1)
              /\ (Len(daily_sales) >= 7 /\ k > 7) =>
                    x.quantity_lag7 = ClampedPrediction(k - 7)

\* eight observed days ending on 2 units, nine steps scored 4, -3, 4, 4,
\* -3, ...: step 2 has lag-1 4, step 3 has lag-1 0, steps 8 and 9 have
\* lag-7 4 and 0, the predictions of steps 1 and 2
C22_Witness ==
    /\ pc = "forecast_demand"
    /\ "forecast_demand" \in returned
    /\ Len(daily_sales) = 8
    /\ daily_sales[2].quantity = SpikeQty
    /\ Len(predict_calls) = 9
    /\ predict_calls[1].score = 4
    /\ predict_calls[2].score = -3
    /\ predict_calls[1].X_new.quantity_lag1 = Num(<<BaseQty, 1>>)
    /\ predict_calls[1].X_new.quantity_lag7 = Num(<<SpikeQty, 1>>)
    /\ predict_calls[2].X_new.quantity_lag1 = Num(<<4, 1>>)
    /\ predict_calls[3].X_new.quantity_lag1 = Num(<<0, 1>>)
    /\ predict_calls[8].X_new.quantity_lag7 = Num(<<4, 1>>)
    /\ predict_calls[9].X_new.quantity_lag7 = Num(<<0, 1>>)

----------------------------------------------------------------------------
(* ETLPipeline.run                                                         *)
(* One action is one line of run: connect_database, one load step (the     *)
(* load_csv of its file and the load_* call), calculate_kpis, and the      *)
(* finally clause with the return.  The database keeps, for each table,    *)
(* the number of committed rows, and the number of rows inserted by the    *)
(* open transaction.  A step ends in a commit, in a database Error (which  *)
(* the step catches and rolls back), or in another exception, which the    *)
(* step does not catch.                                                    *)

MaxCsvRows == 1

\* the steps of run, in the order of its lines
LoadOrder ==
    <<"stores", "products", "suppliers", "inventory", "sales", "orders",
      "returns", "kpis">>

\* the steps that load a CSV file, and the table each writes to
LoadSteps == {LoadOrder[i] : i \in 1..(Len(LoadOrder) - 1)}

PositionOf(name) == CHOOSE i \in 1..Len(LoadOrder) : LoadOrder[i] = name

\* a step that ends the run when it has caught a database Error
StopAfter(name, outcome) ==
    IF outcome \in {"raised", "rolled_back"} \/ PositionOf(name) = Len(LoadOrder)
    THEN "finally"
    ELSE LoadOrder[PositionOf(name) + 1]

\* the line of run reached after the step `name`: the next step, or the
\* finally clause after the last step and when the step raised
Following(name, outcome) ==
    IF outcome = "raised" \/ PositionOf(name) = Len(LoadOrder)
    THEN "finally"
    ELSE LoadOrder[PositionOf(name) + 1]

\* load_csv(filename): None when the file cannot be read, else its rows
CsvFiles ==
    {[found |-> FALSE, rows |-> 0]}
        \cup {[found |-> TRUE, rows |-> n] : n \in 0..MaxCsvRows}

\* the tables whose ids a row of the step must resolve (`if store_id and
\* product_id`) to be inserted
Lookups(name) ==
    IF name \in {"stores", "products", "suppliers"} THEN {}
    ELSE IF name = "orders" THEN {"stores", "products", "suppliers"}
    ELSE {"stores", "products"}

\* the rows of a file of n rows that the step inserts
Insertable(name, n) ==
    IF \A t \in Lookups(name) : tables[t] > 0 THEN n ELSE 0

\* the rows calculate_kpis inserts: one for each store and the overall row
KpiRows == tables["stores"] + 1

\* connection.commit()
Commit(table, rows) == [tables EXCEPT ![table] = @ + rows]

\* the outcomes of the body of a load step or of calculate_kpis
StepOutcomes == {"committed", "rolled_back", "raised"}

\* the effect on the database of a step that executes `done` of its
\* inserts into `table` and ends in `outcome`
StepEffect(name, table, rows, done, outcome) ==
    /\ tables' = IF outcome = "committed" THEN Commit(table, rows) ELSE tables
    /\ uncommitted' = IF outcome = "raised" THEN done ELSE 0
    /\ etl_log' = Append(etl_log, [step |-> name, outcome |-> outcome])
    /\ etl_step' = Following(name, outcome)

\* if not self.connect_database(): return False
ConnectDatabase ==
    /\ etl_step = "init"
    /\ \E connected \in BOOLEAN :
          IF connected
          THEN /\ connection' = "open"
               /\ cursor' = "open"
               /\ etl_step' = "stores"
               /\ result' = result
          ELSE /\ etl_step' = "returned"
               /\ result' = "False"
               /\ UNCHANGED <<connection, cursor>>
    /\ UNCHANGED <<tables, uncommitted, etl_log, forecasting>>

\* x_df = self.load_csv("x.csv"); if x_df is not None: self.load_x(x_df)
LoadStep(name) ==
    /\ etl_step = name
    /\ name \in LoadSteps
    /\ \E file \in CsvFiles :
          IF ~file.found
          THEN /\ etl_log' = Append(etl_log,
                                    [step |-> name, outcome |-> "skipped"])
               /\ etl_step' = Following(name, "skipped")
               /\ UNCHANGED <<tables, uncommitted>>
          ELSE \E outcome \in StepOutcomes :
                  \E done \in 0..Insertable(name, file.rows) :
                      StepEffect(name, name, Insertable(name, file.rows),
                                 done, outcome)
    /\ UNCHANGED <<connection, cursor, result, forecasting>>

\* self.calculate_kpis()
CalculateKpis ==
    /\ etl_step = "kpis"
    /\ \E outcome \in StepOutcomes :
          \E done \in 0..KpiRows :
              StepEffect("kpis", "kpiMetrics", KpiRows, done, outcome)
    /\ UNCHANGED <<connection, cursor, result, forecasting>>

\* finally: self.close_database(), which ends the open transaction without
\* a commit; then `return True`, or the exception of the step goes on
CloseDatabase ==
    /\ etl_step = "finally"
    /\ cursor' = "closed"
    /\ connection' = "closed"
    /\ uncommitted' = 0
    /\ result' = IF etl_log[Len(etl_log)].outcome = "raised" THEN "raised"
                 ELSE "True"
    /\ etl_step' = "returned"
    /\ UNCHANGED <<tables, etl_log, forecasting>>

InitEtl == Constructed /\ df = <<>>

NextEtl ==
    \/ ConnectDatabase
    \/ \E name \in LoadSteps : LoadStep(name)
    \/ CalculateKpis
    \/ CloseDatabase

SpecEtl == InitEtl /\ [][NextEtl]_vars

\* no step of the run has ended in an exception it did not catch
NoStepRaised == \A i \in 1..Len(etl_log) : etl_log[i].outcome # "raised"

EtlRunInv ==
    \* no connection: nothing is loaded and run returns False
    /\ result = "False" =>
          /\ connection = "None"
          /\ etl_log = <<>>
          /\ \A t \in TableNames : tables[t] = 0
    /\ connection = "None" /\ etl_step = "returned" => result = "False"
    \* the steps are gone through in the order of LoadOrder
    /\ Len(etl_log) <= Len(LoadOrder)
    /\ \A i \in 1..Len(etl_log) : etl_log[i].step = LoadOrder[i]
    \* a database error in a step does not keep the next step from running
    /\ \A i \in 1..Len(etl_log) :
          (etl_log[i].outcome = "rolled_back" /\ i < Len(LoadOrder)) =>
              \/ Len(etl_log) > i
              \/ etl_step = LoadOrder[i + 1]
    \* run returns True unless a step raised, and then every step was run
    /\ (etl_step = "returned" /\ connection # "None" /\ NoStepRaised) =>
          /\ result = "True"
          /\ Len(etl_log) = Len(LoadOrder)
    /\ result = "True" => etl_step = "returned" /\ NoStepRaised
    \* every step starts with no insert of an earlier step pending
    /\ etl_step \in LoadSteps \cup {"kpis"} =>
          /\ uncommitted = 0
          /\ connection = "open"
          /\ cursor = "open"
    \* the connection is closed on every path after a successful connect
    /\ (etl_step = "returned" /\ result # "False") =>
          /\ connection = "closed"
          /\ cursor = "closed"
          /\ uncommitted = 0

\* a step that ends in a database error leaves every committed row in
\* place and no insert of its own pending
RollbackKeepsCommitted ==
    (/\ Len(etl_log') = Len(etl_log) + 1
     /\ etl_log'[Len(etl_log')].outcome = "rolled_back")
        => /\ tables' = tables
           /\ uncommitted' = 0

\* C25: if the connection cannot be established nothing is loaded and run
\* returns False; otherwise the steps run in the order stores, products,
\* suppliers, inventory, sales, orders, returns, KPIs, a database error in
\* one step rolls back only that step's uncommitted inserts and does not
\* prevent the later steps from running, run still returns True, and the
\* connection is closed on every path after a successful connect, also
\* when a step raises.
C25_EtlRunOrderRollbackClose ==
    /\ []EtlRunInv
    /\ [][RollbackKeepsCommitted]_vars

\* the sales step ended in a database error after the four steps before it
\* were committed; orders, returns and the KPIs were still loaded, run
\* returned True and the connection is closed
C25_Witness ==
    /\ etl_step = "returned"
    /\ result = "True"
    /\ connection = "closed"
    /\ Len(etl_log) = 8
    /\ \A i \in 1..4 : etl_log[i].outcome = "committed"
    /\ etl_log[5] = [step |-> "sales", outcome |-> "rolled_back"]
    /\ \A i \in 6..8 : etl_log[i].outcome = "committed"
    /\ tables["stores"] = 1
    /\ tables["inventory"] = 1
    /\ tables["sales"] = 0
    /\ tables["orders"] = 1
    /\ tables["kpiMetrics"] = 2

============================================================================
